---- MODULE Spec2Model ----
(***************************************************************************)
(* A model of dnf-ai-analyzer: the package analyzer (five collectors, the  *)
(* aggregator collect_all_metrics / generate_report, save_report, main)    *)
(* and the AI reporter (chamar_gemini, main).                              *)
(*                                                                         *)
(* The host is the environment: every external command the collectors run  *)
(* either raises inside subprocess.run (timeout, missing binary) or exits  *)
(* with a return code and a stdout.  A stdout is modelled as the sequence  *)
(* of its lines, i.e. the value of Python's stdout.split('\n'): it is never*)
(* empty, and the empty text is the one blank line <<Blank>>.  A line is   *)
(* the sequence of its whitespace separated fields (line.split()), so the  *)
(* blank line is <<>>.                                                     *)
(***************************************************************************)
EXTENDS Integers, Sequences, FiniteSets, TLC

-----------------------------------------------------------------------------
(* Python text helpers                                                     *)

Blank == <<>>

\* line.strip() is empty
IsBlank(line) == Len(line) = 0

RECURSIVE DropLeadingBlank(_)
DropLeadingBlank(ls) ==
    IF ls = <<>> THEN <<>>
    ELSE IF IsBlank(Head(ls)) THEN DropLeadingBlank(Tail(ls))
    ELSE ls

RECURSIVE DropTrailingBlank(_)
DropTrailingBlank(ls) ==
    IF ls = <<>> THEN <<>>
    ELSE IF IsBlank(ls[Len(ls)]) THEN DropTrailingBlank(SubSeq(ls, 1, Len(ls) - 1))
    ELSE ls

\* stdout.strip().split('\n'): the blank lines at both ends go, and what is
\* left is split; the split of the empty text is the list [''].
StripSplit(stdout) ==
    LET core == DropTrailingBlank(DropLeadingBlank(stdout))
    IN  IF core = <<>> THEN <<Blank>> ELSE core

\* stdout.split('\n'), which is the modelled stdout itself
Split(stdout) == stdout

\* [l for l in lines if l.strip()]
NonBlankLines(lines) == SelectSeq(lines, LAMBDA l : ~IsBlank(l))

\* seq[:n]
Take(seq, n) == SubSeq(seq, 1, IF Len(seq) < n THEN Len(seq) ELSE n)

\* 'word' in line, for a word that is one of the line's fields
HasWord(line, words) == \E i \in 1..Len(line) : line[i] \in words

\* line.startswith(word), for a word that is the line's first field
StartsWith(line, words) == Len(line) > 0 /\ line[1] \in words

RECURSIVE SumTo(_, _)
SumTo(s, n) == IF n = 0 THEN 0 ELSE SumTo(s, n - 1) + s[n]

SumSeq(s) == SumTo(s, Len(s))

Pow2(k) == 2 ^ k

\* round(n / 2**e, 2) in hundredths, for e = 2 + 2m and 0 <= n < 2**31:
\* n / 2**e * 100 = 25 n / 2**(2m).  n / 2**e is exact in binary floating
\* point, so Python's round is round-half-even of the exact quotient.  The
\* product 25 n is split so that no intermediate value exceeds 32 bits.
Round2(n, m) ==
    LET P    == Pow2(m)
        a    == n \div P
        b    == n % P
        c    == (25 * b) \div P
        e    == (25 * b) % P
        Q    == (25 * a + c) \div P
        f    == (25 * a + c) % P
        R    == f * P + e
        half == (P * P) \div 2
    IN  IF R > half THEN Q + 1
        ELSE IF R = half THEN Q + (Q % 2)
        ELSE Q

\* round(n / (1024 * 1024), 2), in hundredths of a megabyte
RoundMB(n) == Round2(n, 9)

\* round(n / 1024**3, 2), in hundredths of a gigabyte
RoundGB(n) == Round2(n, 14)

-----------------------------------------------------------------------------
(* subprocess.run                                                          *)

\* the command ran and exited with returncode rc, having written stdout
Exited(rc, out) == [raised |-> FALSE, returncode |-> rc, stdout |-> out]

\* subprocess.run raised an Exception (TimeoutExpired, OSError, ...)
Raised == [raised |-> TRUE, returncode |-> 0, stdout |-> <<Blank>>]

-----------------------------------------------------------------------------
(* modules/packages.py                                                     *)

\* One line of `rpm -qa --queryformat '%{NAME}|%{SIZE}|%{VERSION}\n'`:
\* parts is len(line.split('|')) (1 when the line holds no '|'), numeric
\* says whether int(parts[1]) succeeds, and size is its value.
QLine(name, size, version) ==
    [parts |-> 3, name |-> name, numeric |-> TRUE, size |-> size, version |-> version]
QBlank == [parts |-> 1, name |-> "", numeric |-> FALSE, size |-> 0, version |-> ""]
QBadSize(name) ==
    [parts |-> 3, name |-> name, numeric |-> FALSE, size |-> 0, version |-> "1"]
QShort(name) ==
    [parts |-> 2, name |-> name, numeric |-> TRUE, size |-> 1, version |-> ""]

QIsBlank(l) == l.parts = 1 /\ l.name = ""

RECURSIVE QDropLeading(_)
QDropLeading(ls) ==
    IF ls = <<>> THEN <<>>
    ELSE IF QIsBlank(Head(ls)) THEN QDropLeading(Tail(ls))
    ELSE ls

RECURSIVE QDropTrailing(_)
QDropTrailing(ls) ==
    IF ls = <<>> THEN <<>>
    ELSE IF QIsBlank(ls[Len(ls)]) THEN QDropTrailing(SubSeq(ls, 1, Len(ls) - 1))
    ELSE ls

\* stdout.strip().split('\n') on the queryformat lines
QStripSplit(stdout) ==
    LET core == QDropTrailing(QDropLeading(stdout))
    IN  IF core = <<>> THEN <<QBlank>> ELSE core

\* A Size value of `dnf info` is modelled as the sequence of its characters.
Digits == <<"0", "1", "2", "3", "4", "5", "6", "7", "8", "9">>
DigitSet == {Digits[i] : i \in 1..Len(Digits)}
DigitValue(c) == (CHOOSE i \in 1..Len(Digits) : Digits[i] = c) - 1

\* str.lower(), on the letters a unit is written with
LowerChar(c) ==
    CASE c = "K" -> "k"
      [] c = "M" -> "m"
      [] c = "G" -> "g"
      [] c = "B" -> "b"
      [] OTHER   -> c
Lower(text) == [i \in 1..Len(text) |-> LowerChar(text[i])]

\* c in text
Contains(text, c) == \E i \in 1..Len(text) : text[i] = c

\* text.replace(c, '')
Remove(text, c) == SelectSeq(text, LAMBDA x : x # c)

\* text.strip()
RECURSIVE StripLeft(_)
StripLeft(text) ==
    IF text # <<>> /\ Head(text) = " " THEN StripLeft(Tail(text)) ELSE text
RECURSIVE StripRight(_)
StripRight(text) ==
    IF text # <<>> /\ text[Len(text)] = " "
    THEN StripRight(SubSeq(text, 1, Len(text) - 1))
    ELSE text
Strip(text) == StripRight(StripLeft(text))

RECURSIVE NumberOf(_)
NumberOf(digits) ==
    IF digits = <<>> THEN 0
    ELSE 10 * NumberOf(SubSeq(digits, 1, Len(digits) - 1))
             + DigitValue(digits[Len(digits)])

RECURSIVE Pow10(_)
Pow10(k) == IF k = 0 THEN 1 ELSE 10 * Pow10(k - 1)

\* float(text), for a text of digits with at most one '.': the number is
\* mant / 10**decimals.  Any other text raises ValueError (ok is FALSE).
ParseFloat(text) ==
    LET dots   == {i \in 1..Len(text) : text[i] = "."}
        digits == Remove(text, ".")
        ok     == /\ digits # <<>>
                  /\ Cardinality(dots) <= 1
                  /\ \A i \in 1..Len(digits) : digits[i] \in DigitSet
    IN  IF ok
        THEN [ok |-> TRUE, mant |-> NumberOf(digits),
              decimals |-> IF dots = {} THEN 0
                           ELSE Len(text) - (CHOOSE i \in dots : TRUE)]
        ELSE [ok |-> FALSE, mant |-> 0, decimals |-> 0]

\* int(f * mult) for f >= 0: the floor of mant * mult / 10**decimals.  mult
\* is a power of two, so the float product is exact, and the float nearest
\* to a short decimal lies on the same side of every integer as the decimal
\* does.  The product is split so that no intermediate exceeds 32 bits.
IntOfProduct(f, mult) ==
    LET D == Pow10(f.decimals)
    IN  f.mant * (mult \div D) + (f.mant * (mult % D)) \div D

\* get_package_details, lines 75-83, with `base` for 1024: the size_bytes a
\* line `Size : value` gives.  A text float() rejects raises ValueError,
\* which the function's except swallows: size_bytes keeps its 0.
SizeWithBase(value, base) ==
    LET size_str == Lower(value)
        Convert(unit, mult) ==
            LET f == ParseFloat(Strip(Remove(size_str, unit)))
            IN  IF f.ok THEN IntOfProduct(f, mult) ELSE 0
    IN  IF Contains(size_str, "k") THEN Convert("k", base)
        ELSE IF Contains(size_str, "m") THEN Convert("m", base * base)
        ELSE IF Contains(size_str, "g") THEN Convert("g", base * base * base)
        ELSE 0

\* size_bytes with decimal units
size_bytes_Decimal(value) == SizeWithBase(value, 1000)

\* get_package_details, lines 75-83
size_bytes(value) == SizeWithBase(value, 1024)

\* the dict appended for one parsed line
PackageEntry(l) ==
    [name |-> l.name, size_bytes |-> l.size, size_mb |-> RoundMB(l.size),
     version |-> l.version]

\* list.sort(key=size_bytes, reverse=True): stable, the largest first, equal
\* keys keeping their order.  The place of an entry in the result is one
\* more than the number of entries that are larger, or equal and before it.
SortBySizeDesc(s) ==
    LET n       == Len(s)
        Place   == [i \in 1..n |->
                       1 + Cardinality({j \in 1..n :
                               \/ s[j].size_bytes > s[i].size_bytes
                               \/ s[j].size_bytes = s[i].size_bytes /\ j < i})]
        AtPlace == [k \in 1..n |-> CHOOSE i \in 1..n : Place[i] = k]
    IN  [k \in 1..n |-> s[AtPlace[k]]]

\* get_packages_by_size without the sort: the packages as they were listed
get_packages_by_size_Unsorted(result, interrupted) ==
    IF result.raised \/ result.returncode # 0 THEN <<>>
    ELSE LET lines == QStripSplit(result.stdout)
             kept  == { i \in 1..Len(lines) :
                          /\ lines[i].parts >= 3
                          /\ lines[i].numeric
                          /\ i # interrupted }
             numbered == [i \in 1..Len(lines) |-> [index |-> i, line |-> lines[i]]]
             appended == SelectSeq(numbered, LAMBDA e : e.index \in kept)
         IN  [k \in 1..Len(appended) |-> PackageEntry(appended[k].line)]

\* get_packages_by_size.  interrupted is the index of the line during whose
\* packages.append a KeyboardInterrupt arrives (0: none): the bare except
\* around the append swallows it and the loop continues with the next line.
get_packages_by_size(result, interrupted) ==
    IF result.raised \/ result.returncode # 0 THEN <<>>
    ELSE LET lines == QStripSplit(result.stdout)
             kept  == { i \in 1..Len(lines) :
                          /\ lines[i].parts >= 2
                          /\ lines[i].parts >= 3
                          /\ lines[i].numeric
                          /\ i # interrupted }
             numbered == [i \in 1..Len(lines) |-> [index |-> i, line |-> lines[i]]]
             appended == SelectSeq(numbered, LAMBDA e : e.index \in kept)
             packages == [k \in 1..Len(appended) |-> PackageEntry(appended[k].line)]
         IN  SortBySizeDesc(packages)

\* get_package_count
get_package_count(total_result, user_result) ==
    LET count  == [total |-> 0, user_installed |-> 0, dependencies |-> 0]
        count1 == IF total_result.returncode = 0
                  THEN [count EXCEPT !.total = Len(StripSplit(total_result.stdout))]
                  ELSE count
        count2 == IF user_result.returncode = 0
                  THEN [count1 EXCEPT !.user_installed =
                            Len(NonBlankLines(StripSplit(user_result.stdout)))]
                  ELSE count1
    IN  IF total_result.raised THEN count
        ELSE IF user_result.raised THEN count1
        ELSE [count2 EXCEPT !.dependencies = count2.total - count2.user_installed]

PackagesBySizeCap == 50
LargestPackagesCap == 20
AllPackagesSampleCap == 100

\* collect_package_metrics, from the results of its three commands
collect_package_metrics(total_result, user_result, size_result, interrupted) ==
    LET counts           == get_package_count(total_result, user_result)
        packages_by_size == Take(get_packages_by_size(size_result, interrupted),
                                 PackagesBySizeCap)
        total_size_bytes == SumSeq([i \in 1..Len(packages_by_size) |->
                                        packages_by_size[i].size_bytes])
    IN  [summary |-> [total_packages |-> counts.total,
                      user_installed |-> counts.user_installed,
                      dependencies   |-> counts.dependencies,
                      total_size_gb  |-> RoundGB(total_size_bytes)],
         largest_packages    |-> Take(packages_by_size, LargestPackagesCap),
         all_packages_sample |-> Take(packages_by_size, AllPackagesSampleCap)]

-----------------------------------------------------------------------------
(* modules/updates.py                                                      *)

\* field.rsplit('.', 1)[0] on the fields the model uses: the text after the
\* last dot goes; a field without a dot is kept whole.
StripArch(field) ==
    CASE field = "bash.x86_64"   -> "bash"
      [] field = "vim.noarch"    -> "vim"
      [] field = "python3.11.i686" -> "python3.11"
      [] OTHER                   -> field

LastWords == {"Last"}
SecurityHeaderWords == {"Security:"}
\* fields that hold the text 'FEDORA'
FedoraWords == {"FEDORA-2024-1", "FEDORA-2024-2"}
\* fields whose lower case holds the text 'security'
SecurityWords == {"security", "Security:"}

CheckUpdateOkCodes == {0, 100}
UpdatesListCap == 30
SecurityListCap == 10

\* get_updates_available
get_updates_available(result) ==
    IF result.raised \/ result.returncode \notin CheckUpdateOkCodes THEN <<>>
    ELSE LET lines == StripSplit(result.stdout)
             kept  == SelectSeq(lines, LAMBDA l :
                          /\ ~IsBlank(l)
                          /\ ~StartsWith(l, LastWords)
                          /\ ~StartsWith(l, SecurityHeaderWords)
                          /\ Len(l) >= 3)
         IN  [i \in 1..Len(kept) |->
                 [package     |-> StripArch(kept[i][1]),
                  new_version |-> kept[i][2],
                  repository  |-> kept[i][3]]]

\* get_security_updates
get_security_updates(result) ==
    IF result.raised \/ result.returncode # 0 THEN <<>>
    ELSE LET lines == StripSplit(result.stdout)
             kept  == SelectSeq(lines, LAMBDA l :
                          /\ HasWord(l, FedoraWords) \/ HasWord(l, SecurityWords)
                          /\ Len(l) >= 2)
         IN  [i \in 1..Len(kept) |->
                 [advisory |-> kept[i][1],
                  type     |-> "security",
                  severity |-> kept[i][2]]]

\* get_update_summary, which is all collect_update_metrics returns
collect_update_metrics(check_result, security_result) ==
    LET updates  == get_updates_available(check_result)
        security == get_security_updates(security_result)
    IN  [total_updates    |-> Len(updates),
         security_updates |-> Len(security),
         updates_list     |-> Take(updates, UpdatesListCap),
         security_list    |-> Take(security, SecurityListCap)]

-----------------------------------------------------------------------------
(* modules/orphans.py                                                      *)

\* line.strip().rsplit('.', 1)[0]: the line with the text after its last
\* dot removed
StripArchOfLine(line) == [line EXCEPT ![Len(line)] = StripArch(@)]

\* get_orphaned_packages reading the output whatever the return code
get_orphaned_packages_AnyExit(result) ==
    IF result.raised THEN <<>>
    ELSE LET kept == NonBlankLines(StripSplit(result.stdout))
         IN  [i \in 1..Len(kept) |-> [name |-> StripArchOfLine(kept[i])]]

\* get_orphaned_packages
get_orphaned_packages(result) ==
    IF result.raised \/ result.returncode # 0 THEN <<>>
    ELSE LET kept == NonBlankLines(StripSplit(result.stdout))
         IN  [i \in 1..Len(kept) |-> [name |-> StripArchOfLine(kept[i])]]

\* fields that hold the text 'Removing'
RemovingWords == {"Removing:", "Removing"}
TransactionWords == {"Transaction"}
SectionWords == {"Installing", "Upgrading", "Removing"}

\* get_autoremovable_packages: the return code is not looked at.  The scan
\* keeps in_remove_section and the list built so far.
get_autoremovable_packages(result) ==
    IF result.raised THEN <<>>
    ELSE LET lines == Split(result.stdout)
             Scan[i \in 0..Len(lines)] ==
                 IF i = 0 THEN [in_remove_section |-> FALSE, autoremove |-> <<>>]
                 ELSE LET prev == Scan[i - 1]
                          line == lines[i]
                      IN  IF HasWord(line, RemovingWords)
                          THEN [prev EXCEPT !.in_remove_section = TRUE]
                          ELSE IF /\ prev.in_remove_section
                                  /\ ~IsBlank(line)
                                  /\ ~StartsWith(line, TransactionWords)
                                  /\ Len(line) >= 1
                                  /\ line[1] \notin SectionWords
                          THEN [prev EXCEPT !.autoremove =
                                    Append(@, [name |-> line[1]])]
                          ELSE prev
         IN  Scan[Len(lines)].autoremove

OrphanedPackagesCap == 50
AutoremovablePackagesCap == 30

\* collect_orphan_metrics
collect_orphan_metrics(unneeded_result, autoremove_result) ==
    LET orphaned   == get_orphaned_packages(unneeded_result)
        autoremove == get_autoremovable_packages(autoremove_result)
    IN  [orphaned_count         |-> Len(orphaned),
         orphaned_packages      |-> Take(orphaned, OrphanedPackagesCap),
         autoremovable_count    |-> Len(autoremove),
         autoremovable_packages |-> Take(autoremove, AutoremovablePackagesCap)]

-----------------------------------------------------------------------------
(* modules/cache.py                                                        *)

\* {**f, **g}
MergeDict(f, g) ==
    [k \in DOMAIN f \cup DOMAIN g |-> IF k \in DOMAIN g THEN g[k] ELSE f[k]]

EmptyDict == [k \in {} |-> 0]

\* The cache directory as os.walk finds it: exists, whether the walk raises
\* an Exception, and for each file its size and whether os.path.getsize
\* raises on it.
CacheDir(exists, raises, files) == [exists |-> exists, raises |-> raises, files |-> files]
CacheFile(size, unreadable) == [size |-> size, unreadable |-> unreadable]

\* get_cache_size.  interrupted is the index of the file during whose
\* os.path.getsize a KeyboardInterrupt arrives (0: none): the bare except
\* around it swallows the interrupt and the loop continues.
get_cache_size(dir, interrupted) ==
    LET cache_info == [total_size_mb  |-> 0,
                       packages_cache |-> 0,
                       metadata_cache |-> 0,
                       cache_dir      |-> "/var/cache/dnf"]
        counted    == { i \in 1..Len(dir.files) :
                          ~dir.files[i].unreadable /\ i # interrupted }
        total_size == SumSeq([i \in 1..Len(dir.files) |->
                                 IF i \in counted THEN dir.files[i].size ELSE 0])
    IN  IF dir.raises \/ ~dir.exists THEN cache_info
        ELSE MergeDict(cache_info,
                       [total_size_mb |-> RoundMB(total_size),
                        total_size_gb |-> RoundGB(total_size)])

\* get_cache_info_dnf: stdout.split()[0] is the first field of the first
\* line that is not blank, and an IndexError without one
get_cache_info_dnf(result) ==
    IF result.raised \/ result.returncode # 0 THEN EmptyDict
    ELSE LET fields == NonBlankLines(result.stdout)
         IN  IF fields = <<>> THEN EmptyDict
             ELSE [cache_size_human |-> fields[1][1]]

CanCleanThresholdMB == 100

\* collect_cache_metrics with the threshold included
collect_cache_metrics_AtThreshold(dir, interrupted, du_result) ==
    LET cache_size == get_cache_size(dir, interrupted)
        cache_info == get_cache_info_dnf(du_result)
    IN  MergeDict(MergeDict(cache_size, cache_info),
                  [can_clean |-> cache_size.total_size_mb >= CanCleanThresholdMB * 100])

\* collect_cache_metrics; total_size_mb is kept in hundredths of a megabyte
collect_cache_metrics(dir, interrupted, du_result) ==
    LET cache_size == get_cache_size(dir, interrupted)
        cache_info == get_cache_info_dnf(du_result)
    IN  MergeDict(MergeDict(cache_size, cache_info),
                  [can_clean |-> cache_size.total_size_mb > CanCleanThresholdMB * 100])

-----------------------------------------------------------------------------
(* modules/dependencies.py                                                 *)

\* fields whose lower case holds 'missing' or 'broken'
BrokenWords == {"missing", "Missing", "broken"}
RpmIssuesCap == 10
BrokenListCap == 20
DuplicateListCap == 20

\* check_broken_dependencies: `dnf check` is read only when it exits non-zero,
\* `rpm -Va` whatever it exits with
check_broken_dependencies(check_result, rpm_result) ==
    LET from_check ==
            IF check_result.returncode # 0
            THEN LET hit == SelectSeq(Split(check_result.stdout),
                                      LAMBDA l : HasWord(l, BrokenWords))
                 IN  [i \in 1..Len(hit) |-> [issue |-> hit[i]]]
            ELSE <<>>
        from_rpm ==
            IF NonBlankLines(rpm_result.stdout) # <<>>
            THEN LET hit == NonBlankLines(Take(StripSplit(rpm_result.stdout),
                                               RpmIssuesCap))
                 IN  [i \in 1..Len(hit) |-> [rpm_issue |-> hit[i]]]
            ELSE <<>>
    IN  IF check_result.raised THEN <<>>
        ELSE IF rpm_result.raised THEN from_check
        ELSE from_check \o from_rpm

\* get_duplicate_packages
get_duplicate_packages(result) ==
    IF result.raised \/ result.returncode # 0 THEN <<>>
    ELSE LET kept == NonBlankLines(StripSplit(result.stdout))
         IN  [i \in 1..Len(kept) |-> [package |-> kept[i]]]

\* collect_dependency_metrics
collect_dependency_metrics(check_result, rpm_result, duplicates_result) ==
    LET broken     == check_broken_dependencies(check_result, rpm_result)
        duplicates == get_duplicate_packages(duplicates_result)
    IN  [broken_dependencies |-> Len(broken),
         broken_list         |-> Take(broken, BrokenListCap),
         duplicate_packages  |-> Len(duplicates),
         duplicate_list      |-> Take(duplicates, DuplicateListCap),
         has_issues          |-> Len(broken) > 0 \/ Len(duplicates) > 0]

-----------------------------------------------------------------------------
(* package_analyzer.py: the pure parts                                     *)

\* d.get(k, default)
Get(d, k, default) == IF k \in DOMAIN d THEN d[k] ELSE default

\* the placeholder collect_all_metrics stores for a collector that raised
ErrorEntry(message) == [error |-> message]

Issue(type, severity, message) ==
    [type |-> type, severity |-> severity, message |-> message]

OrphanIssueThreshold == 10

\* generate_report, lines 95-101: the issue for pending updates
UpdatesIssue(metrics) ==
    IF Get(Get(metrics, "updates", EmptyDict), "total_updates", 0) > 0
    THEN <<Issue("updates", "info",
                 <<metrics["updates"]["total_updates"], "atualizacoes disponiveis">>)>>
    ELSE <<>>

\* SecurityIssue testing the count of all updates
SecurityIssue_OnTotalUpdates(metrics) ==
    IF Get(Get(metrics, "updates", EmptyDict), "total_updates", 0) > 0
    THEN <<Issue("security", "warning",
                 <<metrics["updates"]["security_updates"],
                   "atualizacoes de seguranca disponiveis">>)>>
    ELSE <<>>

\* generate_report, lines 103-109: the issue for security updates
SecurityIssue(metrics) ==
    IF Get(Get(metrics, "updates", EmptyDict), "security_updates", 0) > 0
    THEN <<Issue("security", "warning",
                 <<metrics["updates"]["security_updates"],
                   "atualizacoes de seguranca disponiveis">>)>>
    ELSE <<>>

\* OrphansIssue with the threshold included
OrphansIssue_AtThreshold(metrics) ==
    IF Get(Get(metrics, "orphans", EmptyDict), "orphaned_count", 0)
           >= OrphanIssueThreshold
    THEN <<Issue("orphans", "info",
                 <<metrics["orphans"]["orphaned_count"], "pacotes orfaos detectados">>)>>
    ELSE <<>>

\* generate_report, lines 111-117: the issue for orphaned packages
OrphansIssue(metrics) ==
    IF Get(Get(metrics, "orphans", EmptyDict), "orphaned_count", 0)
           > OrphanIssueThreshold
    THEN <<Issue("orphans", "info",
                 <<metrics["orphans"]["orphaned_count"], "pacotes orfaos detectados">>)>>
    ELSE <<>>

\* generate_report, lines 119-125: the issue for a large cache
CacheIssue(metrics) ==
    IF Get(Get(metrics, "cache", EmptyDict), "can_clean", FALSE)
    THEN <<Issue("cache", "info",
                 <<metrics["cache"]["total_size_mb"], "MB de cache do DNF">>)>>
    ELSE <<>>

\* generate_report, lines 127-133: the issue for dependency problems
DependenciesIssue(metrics) ==
    IF Get(Get(metrics, "dependencies", EmptyDict), "has_issues", FALSE)
    THEN <<Issue("dependencies", "warning",
                 <<0, "Problemas de dependencias detectados">>)>>
    ELSE <<>>

\* DeriveIssues with the cache rule evaluated before the orphans rule
DeriveIssues_CacheBeforeOrphans(metrics) ==
    UpdatesIssue(metrics) \o SecurityIssue(metrics) \o CacheIssue(metrics)
        \o OrphansIssue(metrics) \o DependenciesIssue(metrics)

\* generate_report, lines 93-133: the issue list derived from the metrics,
\* each message kept as the number it prints and its text
DeriveIssues(metrics) ==
    UpdatesIssue(metrics) \o SecurityIssue(metrics) \o OrphansIssue(metrics)
        \o CacheIssue(metrics) \o DependenciesIssue(metrics)

\* the clock counts ticks; datetime.now() is read at tick resolution and
\* int(timestamp.timestamp()) and strftime('%Y%m%d_%H%M%S') keep the second
TicksPerSecond == 2
SecondOf(tick) == tick \div TicksPerSecond

\* generate_report, lines 135-149: the report built from the timestamp taken
\* on entry and the collected metrics
BuildReport(timestamp, metrics) ==
    LET issues == DeriveIssues(metrics)
    IN  [timestamp      |-> timestamp,
         timestamp_unix |-> SecondOf(timestamp),
         metrics        |-> metrics,
         issues         |-> issues,
         summary        |->
            [total_packages |-> Get(Get(Get(metrics, "packages", EmptyDict),
                                        "summary", EmptyDict),
                                    "total_packages", 0),
             total_updates  |-> Get(Get(metrics, "updates", EmptyDict),
                                    "total_updates", 0),
             total_issues   |-> Len(issues),
             cache_size_mb  |-> Get(Get(metrics, "cache", EmptyDict),
                                    "total_size_mb", 0)]]

\* load_config: the state of config.json decides what main goes on with.
\* "ok" is a readable JSON file, "missing" raises FileNotFoundError (the
\* default configuration is used), "malformed" raises JSONDecodeError
\* (sys.exit(1)), "unreadable" raises another OSError on open, which
\* load_config does not catch and which main does not either (the call is
\* outside its try): the interpreter ends with status 1.
\* the exit status of a process that has not exited
Running == 0 - 1

ConfigFromFile == [output_dir |-> "configured"]
DefaultConfig == [output_dir |-> "default"]
ConfigStates == {"ok", "missing", "malformed", "unreadable"}

\* load_config catching every OSError where it catches FileNotFoundError
load_config_AnyOSError(state) ==
    CASE state = "ok"         -> [exit |-> Running, config |-> ConfigFromFile]
      [] state = "missing"    -> [exit |-> Running, config |-> DefaultConfig]
      [] state = "malformed"  -> [exit |-> 1, config |-> EmptyDict]
      [] state = "unreadable" -> [exit |-> Running, config |-> DefaultConfig]

load_config(state) ==
    CASE state = "ok"         -> [exit |-> Running, config |-> ConfigFromFile]
      [] state = "missing"    -> [exit |-> Running, config |-> DefaultConfig]
      [] state = "malformed"  -> [exit |-> 1, config |-> EmptyDict]
      [] state = "unreadable" -> [exit |-> 1, config |-> EmptyDict]

\* save_report: the path is the output directory and the second of the
\* wall clock at the time of the call; the file is opened with 'w' (created,
\* or truncated when it exists) and the report dumped into it.  fault is
\* "none", "open" (mkdir or open raises: nothing is touched) or "write"
\* (the dump raises after the file was opened: the file is left partial).
\* ReportPath with a file name that leaves the time of day out
ReportPath_DateOnly(config, now) ==
    <<Get(config, "output_dir", "fallback"), 0>>

ReportPath(config, now) ==
    <<Get(config, "output_dir", "fallback"), SecondOf(now)>>

\* what a dump that raised leaves on disk
PartialFile == [partial |-> TRUE]

WriteFile(files, path, content) ==
    [p \in DOMAIN files \cup {path} |-> IF p = path THEN content ELSE files[p]]

SaveFaults == {"none", "open", "write"}

\* save_report naming the file after the second of the report's timestamp
save_report_NamedByReport(files, report, config, now, fault) ==
    LET filepath == <<Get(config, "output_dir", "fallback"), report.timestamp_unix>>
    IN  CASE fault = "none"  -> WriteFile(files, filepath, report)
          [] fault = "write" -> WriteFile(files, filepath, PartialFile)
          [] fault = "open"  -> files

save_report(files, report, config, now, fault) ==
    LET filepath == ReportPath(config, now)
    IN  CASE fault = "none"  -> WriteFile(files, filepath, report)
          [] fault = "write" -> WriteFile(files, filepath, PartialFile)
          [] fault = "open"  -> files

\* StoreEntry with an except block that stores nothing
StoreEntry_NoPlaceholder(metrics, name, entry, raises) ==
    IF raises THEN metrics ELSE MergeDict(metrics, name :> entry)

\* StoreEntry with an except block that starts the dict afresh
StoreEntry_DropsOthers(metrics, name, entry, raises) ==
    IF raises THEN name :> ErrorEntry("collector raised")
    ELSE MergeDict(metrics, name :> entry)

\* One try/except block of collect_all_metrics: the collector's entry is
\* stored under its name, or the error placeholder when it raised.
StoreEntry(metrics, name, entry, raises) ==
    MergeDict(metrics, name :> (IF raises THEN ErrorEntry("collector raised")
                                ELSE entry))

-----------------------------------------------------------------------------
(* The state                                                               *)

VARIABLES
    \* package_analyzer.py
    pc,           \* where main is: "main", "load_config", a collector's name,
                  \* "report", "save", "database", "summary", "done"
    session,      \* args.session
    config_state, \* the state load_config found config.json in
    config,       \* what load_config returned
    timestamp,    \* generate_report's datetime.now(), in ticks
    metrics,      \* collect_all_metrics' dict, as far as it is filled
    order,        \* the collectors invoked so far, in order
    failed,       \* the collectors that raised an Exception
    report,       \* generate_report's result (with session_id once attached)
    db_calls,     \* the calls of insert_package_metrics: <<session, report>>
    db_outcome,   \* how the database hook's try block ended, "none" before
    printed,      \* print_summary ran
    exit_code,    \* the process's exit status, Running while it runs
    interrupted,  \* a KeyboardInterrupt was delivered to the run
    quiet,        \* so far every command exited 0 with an empty stdout
    \* the disk and the wall clock
    files,        \* the report files on disk: path -> content
    clock,        \* the wall clock, in ticks
    saves,        \* the save_report calls so far: directory, second, fault
    \* a single call of a function of the collectors
    call,         \* the function called and its arguments
    ret,          \* what it returned, Pending before it did
    \* ai_package_reporter.py
    rpc,          \* where the reporter's main is
    response,     \* the text the generative API answered with
    api_calls,    \* the calls of generate_content
    analise_json, \* what chamar_gemini returned, Pending before it did
    html_content, \* what preencher_template returned
    html_files,   \* the HTML files written
    rexit         \* the reporter's exit status, Running while it runs

analyzerVars == <<pc, session, config_state, config, timestamp, metrics, order,
                  failed, report, db_calls, db_outcome, printed, exit_code, interrupted, quiet>>
diskVars == <<files, clock, saves>>
callVars == <<call, ret>>
reporterVars == <<rpc, response, api_calls, analise_json, html_content,
                  html_files, rexit>>
vars == <<analyzerVars, diskVars, callVars, reporterVars>>

Collectors == <<"packages", "updates", "orphans", "cache", "dependencies">>
CollectorSet == {Collectors[i] : i \in 1..Len(Collectors)}

NoSession == "<None>"
\* `if args.session:`
Truthy(s) == s # NoSession /\ s # ""

NoReport == EmptyDict
Pending == [pending |-> TRUE]
NoCall == [fn |-> "none"]
None == [none |-> TRUE]

\* the empty stdout, and a stdout of n lines `line`, each ended by '\n'
EmptyOut == <<Blank>>
Lines(n, line) == [i \in 1..n |-> line] \o <<Blank>>
QEmptyOut == <<QBlank>>

IsQuiet(result) ==
    ~result.raised /\ result.returncode = 0 /\ result.stdout \in {EmptyOut, QEmptyOut}

MainInit ==
    /\ pc = "main"
    /\ session = NoSession
    /\ config_state = "unread"
    /\ config = EmptyDict
    /\ timestamp = 0
    /\ metrics = EmptyDict
    /\ order = <<>>
    /\ failed = {}
    /\ report = NoReport
    /\ db_calls = <<>>
    /\ db_outcome = "none"
    /\ printed = FALSE
    /\ exit_code = Running
    /\ interrupted = FALSE
    /\ quiet = TRUE

DiskInit ==
    /\ files = EmptyDict
    /\ clock = 0
    /\ saves = <<>>

CallInit ==
    /\ call = NoCall
    /\ ret = Pending

ReporterInit ==
    /\ rpc = "main"
    /\ response = <<>>
    /\ api_calls = 0
    /\ analise_json = Pending
    /\ html_content = None
    /\ html_files = {}
    /\ rexit = Running

Init == MainInit /\ DiskInit /\ CallInit /\ ReporterInit

-----------------------------------------------------------------------------
(* package_analyzer.py: main as a state machine.  Every action draws what  *)
(* the host does from the sets of the environment E it is given.           *)

\* A KeyboardInterrupt that reaches main's handler: sys.exit(130).
Interrupt ==
    /\ pc' = "done"
    /\ exit_code' = 130
    /\ interrupted' = TRUE

\* main, lines 199-215
ParseArgs(E) ==
    /\ pc = "main"
    /\ \E s \in E.sessions : session' = s
    /\ pc' = "load_config"
    /\ UNCHANGED <<config_state, config, timestamp, metrics, order, failed, report,
                   db_calls, db_outcome, printed, exit_code, interrupted, quiet>>
    /\ UNCHANGED <<diskVars, callVars, reporterVars>>

\* main, line 218
LoadConfig(E) ==
    /\ pc = "load_config"
    /\ \E state \in E.config_states :
          LET r == load_config(state)
          IN  /\ config_state' = state
              /\ config' = r.config
              /\ exit_code' = r.exit
              /\ pc' = IF r.exit = Running THEN "packages" ELSE "done"
    /\ UNCHANGED <<session, timestamp, metrics, order, failed, report, db_calls, db_outcome,
                   printed, interrupted, quiet>>
    /\ UNCHANGED <<diskVars, callVars, reporterVars>>

\* One try/except block of collect_all_metrics: the collector `name` is
\* invoked; it returns `entry`, or raises an Exception (raises), which the
\* block turns into the error placeholder, or a KeyboardInterrupt (kbd)
\* leaves it, which `except Exception` does not catch.  swallowed says a
\* KeyboardInterrupt was delivered inside the collector and swallowed there.
CollectStep(name, next, entry, raises, kbd, swallowed, isQuiet) ==
    /\ order' = Append(order, name)
    /\ IF kbd
       THEN /\ Interrupt
            /\ UNCHANGED <<metrics, failed, quiet>>
       ELSE /\ metrics' = StoreEntry(metrics, name, entry, raises)
            /\ failed' = IF raises THEN failed \cup {name} ELSE failed
            /\ pc' = next
            /\ interrupted' = (interrupted \/ (swallowed /\ ~raises))
            /\ quiet' = (quiet /\ isQuiet /\ ~raises)
            /\ UNCHANGED exit_code
    /\ UNCHANGED <<session, config_state, config, report, db_calls, db_outcome, printed>>
    /\ UNCHANGED <<diskVars, callVars, reporterVars>>

\* the size line during whose append the interrupt at index i is swallowed
SwallowedInSizes(result, i) ==
    /\ ~result.raised /\ result.returncode = 0
    /\ i \in 1..Len(QStripSplit(result.stdout))
    /\ QStripSplit(result.stdout)[i].parts >= 3

\* generate_report, line 87, and collect_all_metrics, lines 47-52
CollectPackages(E) ==
    /\ pc = "packages"
    /\ timestamp' = clock
    /\ \E total \in E.rpm_qa, user \in E.userinstalled, sizes \in E.rpm_sizes,
          i \in E.swallow_at, raises \in E.collector_raises, kbd \in E.interrupts :
          CollectStep("packages", "updates",
                      collect_package_metrics(total, user, sizes, i),
                      raises, kbd, SwallowedInSizes(sizes, i),
                      IsQuiet(total) /\ IsQuiet(user) /\ IsQuiet(sizes))

\* collect_all_metrics, lines 54-59
CollectUpdates(E) ==
    /\ pc = "updates"
    /\ \E check \in E.check_update, security \in E.updateinfo,
          raises \in E.collector_raises, kbd \in E.interrupts :
          CollectStep("updates", "orphans",
                      collect_update_metrics(check, security),
                      raises, kbd, FALSE, IsQuiet(check) /\ IsQuiet(security))
    /\ UNCHANGED timestamp

\* collect_all_metrics, lines 61-66
CollectOrphans(E) ==
    /\ pc = "orphans"
    /\ \E unneeded \in E.unneeded, autoremove \in E.autoremove,
          raises \in E.collector_raises, kbd \in E.interrupts :
          CollectStep("orphans", "cache",
                      collect_orphan_metrics(unneeded, autoremove),
                      raises, kbd, FALSE, IsQuiet(unneeded) /\ IsQuiet(autoremove))
    /\ UNCHANGED timestamp

\* the file during whose getsize the interrupt at index i is swallowed
SwallowedInCache(dir, i) ==
    ~dir.raises /\ dir.exists /\ i \in 1..Len(dir.files)

\* collect_all_metrics, lines 68-73
CollectCache(E) ==
    /\ pc = "cache"
    /\ \E dir \in E.cache_dirs, du \in E.du, i \in E.swallow_at,
          raises \in E.collector_raises, kbd \in E.interrupts :
          CollectStep("cache", "dependencies",
                      collect_cache_metrics(dir, i, du),
                      raises, kbd, SwallowedInCache(dir, i), IsQuiet(du))
    /\ UNCHANGED timestamp

\* collect_all_metrics, lines 75-82
CollectDependencies(E) ==
    /\ pc = "dependencies"
    /\ \E check \in E.dnf_check, rpm \in E.rpm_verify, dup \in E.duplicates,
          raises \in E.collector_raises, kbd \in E.interrupts :
          CollectStep("dependencies", "report",
                      collect_dependency_metrics(check, rpm, dup),
                      raises, kbd, FALSE,
                      IsQuiet(check) /\ IsQuiet(rpm) /\ IsQuiet(dup))
    /\ UNCHANGED timestamp

\* the rest of generate_report: the issues, the report, the return to main
GenerateReport(E) ==
    /\ pc = "report"
    /\ \E kbd \in E.interrupts :
          IF kbd
          THEN Interrupt /\ UNCHANGED report
          ELSE /\ report' = BuildReport(timestamp, metrics)
               /\ pc' = "save"
               /\ UNCHANGED <<exit_code, interrupted>>
    /\ UNCHANGED <<session, config_state, config, timestamp, metrics, order, failed,
                   db_calls, db_outcome, printed, quiet>>
    /\ UNCHANGED <<diskVars, callVars, reporterVars>>

\* one call of save_report, as the history keeps it
SaveRecord(cfg, now, fault) ==
    [dir    |-> Get(cfg, "output_dir", "fallback"),
     second |-> SecondOf(now),
     path   |-> ReportPath(cfg, now),
     fault  |-> fault]

\* main, lines 224-231: session_id is attached and save_report called.  The
\* wall clock has moved on by `elapsed` ticks since it was last read.  An
\* Exception out of save_report ends main with status 1; a KeyboardInterrupt
\* ends it with 130, the file being left as the fault says.
SaveReport(E) ==
    /\ pc = "save"
    /\ \E elapsed \in E.elapsed, fault \in E.save_faults, kbd \in E.interrupts :
          LET final == IF Truthy(session)
                       THEN MergeDict(report, [session_id |-> session])
                       ELSE report
          IN  /\ report' = final
              /\ clock' = clock + elapsed
              /\ files' = save_report(files, final, config, clock + elapsed, fault)
              /\ saves' = Append(saves, SaveRecord(config, clock + elapsed, fault))
              /\ IF kbd THEN Interrupt
                 ELSE /\ UNCHANGED interrupted
                      /\ IF fault = "none"
                         THEN /\ pc' = IF Truthy(session) THEN "database" ELSE "summary"
                              /\ UNCHANGED exit_code
                         ELSE /\ pc' = "done"
                              /\ exit_code' = 1
    /\ UNCHANGED <<session, config_state, config, timestamp, metrics, order, failed,
                   db_calls, db_outcome, printed, quiet>>
    /\ UNCHANGED <<callVars, reporterVars>>

DbOutcomes == {"ok", "import_error", "insert_error"}

\* DatabaseHook without the try block around the hook: an Exception of the
\* import or of the call reaches main's handler, which exits with 1
DatabaseHook_Fatal(E) ==
    /\ pc = "database"
    /\ \E outcome \in E.db_outcomes, kbd \in E.interrupts :
          IF kbd
          THEN Interrupt /\ UNCHANGED <<db_calls, db_outcome>>
          ELSE /\ db_calls' = IF outcome = "import_error" THEN db_calls
                              ELSE Append(db_calls, <<session, report>>)
               /\ db_outcome' = outcome
               /\ pc' = IF outcome = "ok" THEN "summary" ELSE "done"
               /\ exit_code' = IF outcome = "ok" THEN exit_code ELSE 1
               /\ UNCHANGED interrupted
    /\ UNCHANGED <<session, config_state, config, timestamp, metrics, order, failed,
                   report, printed, quiet>>
    /\ UNCHANGED <<diskVars, callVars, reporterVars>>

\* main, lines 234-244: in session mode DatabaseManager is imported and
\* insert_package_metrics called; any Exception is printed and dropped.
DatabaseHook(E) ==
    /\ pc = "database"
    /\ \E outcome \in E.db_outcomes, kbd \in E.interrupts :
          IF kbd
          THEN Interrupt /\ UNCHANGED <<db_calls, db_outcome>>
          ELSE /\ db_calls' = IF outcome = "import_error" THEN db_calls
                              ELSE Append(db_calls, <<session, report>>)
               /\ db_outcome' = outcome
               /\ pc' = "summary"
               /\ UNCHANGED <<exit_code, interrupted>>
    /\ UNCHANGED <<session, config_state, config, timestamp, metrics, order, failed,
                   report, printed, quiet>>
    /\ UNCHANGED <<diskVars, callVars, reporterVars>>

\* main, lines 246-249: print_summary and sys.exit(0)
PrintSummary(E) ==
    /\ pc = "summary"
    /\ \E kbd \in E.interrupts :
          IF kbd
          THEN Interrupt /\ UNCHANGED printed
          ELSE /\ printed' = TRUE
               /\ pc' = "done"
               /\ exit_code' = 0
               /\ UNCHANGED interrupted
    /\ UNCHANGED <<session, config_state, config, timestamp, metrics, order, failed,
                   report, db_calls, db_outcome, quiet>>
    /\ UNCHANGED <<diskVars, callVars, reporterVars>>

MainNext(E) ==
    \/ ParseArgs(E)
    \/ LoadConfig(E)
    \/ CollectPackages(E)
    \/ CollectUpdates(E)
    \/ CollectOrphans(E)
    \/ CollectCache(E)
    \/ CollectDependencies(E)
    \/ GenerateReport(E)
    \/ SaveReport(E)
    \/ DatabaseHook(E)
    \/ PrintSummary(E)

-----------------------------------------------------------------------------
(* The hosts the analyzer is run on                                        *)

\* the most ticks that pass between two readings of the clock
MaxElapsed == 2

PkgLine == <<"bash.x86_64">>
UpdateLine == <<"bash.x86_64", "5.2.26", "updates">>
AdvisoryLine == <<"FEDORA-2024-1", "Important/Sec.", "bash-5.2.26.x86_64">>
RemovingLine == <<"Removing:">>
RemovedLine == <<"libfoo", "x86_64", "1.0", "@fedora", "10", "k">>
MissingLine == <<"bash", "has", "missing", "requires", "of", "libfoo">>
VerifyLine == <<"Unsatisfied", "dependencies", "for", "bash.x86_64">>
DuLine == <<"120M", "/var/cache/dnf">>
SizeLine == QLine("bash", 7340032, "5.2.26")

\* what a command may do: raise, or exit with one of the codes and stdouts
CommandResults(codes, outs) ==
    {Raised} \cup {Exited(rc, out) : rc \in codes, out \in outs}

UpTo(n, line) == {Lines(k, line) : k \in 0..n}

\* 100 MB, and the least size that rounds to 100.01 MB
HundredMB == 100 * 1024 * 1024
OverHundredMB == HundredMB + 5243

\* a command that writes nothing: it raises, fails or succeeds
Silent == CommandResults({0, 1}, {EmptyOut})
QSilent == CommandResults({0, 1}, {QEmptyOut})

\* the hosts of Spec: every command may raise, fail or succeed, every
\* collector may raise, an interrupt may arrive at every step, the
\* configuration file may be in every state; the commands write nothing
MainEnv ==
    [sessions         |-> {NoSession, "s1"},
     config_states    |-> ConfigStates,
     collector_raises |-> BOOLEAN,
     interrupts       |-> BOOLEAN,
     swallow_at       |-> 0..1,
     rpm_qa           |-> Silent,
     userinstalled    |-> Silent,
     rpm_sizes        |-> QSilent \cup {Exited(0, <<SizeLine, QBlank>>)},
     check_update     |-> Silent,
     updateinfo       |-> Silent,
     unneeded         |-> Silent,
     autoremove       |-> Silent,
     cache_dirs       |-> {CacheDir(FALSE, FALSE, <<>>),
                           CacheDir(TRUE, FALSE, <<CacheFile(OverHundredMB, FALSE)>>)},
     du               |-> Silent,
     dnf_check        |-> Silent,
     rpm_verify       |-> Silent,
     duplicates       |-> Silent,
     elapsed          |-> 0..MaxElapsed,
     save_faults      |-> SaveFaults,
     db_outcomes      |-> DbOutcomes]

Next == MainNext(MainEnv)

Spec == Init /\ [][Next]_vars

-----------------------------------------------------------------------------
(* Claims about main, checked under Spec                                   *)

\* collect_all_metrics has returned and main has not ended
Collected == pc \in {"report", "save", "database", "summary"}
\* generate_report has returned and main has not ended
Reported == pc \in {"save", "database", "summary"}

\* C1: whichever collectors raise, collect_all_metrics returns a dict with
\* all five keys, in which the entry of each collector that raised is the
\* error placeholder and no other entry is; generate_report then returns a
\* report built on that dict, and a run that ends with status 1 after a
\* readable configuration ended in save_report, not in generate_report.
C1_FiveKeysWhateverRaises ==
    /\ Collected =>
          /\ DOMAIN metrics = CollectorSet
          /\ \A c \in CollectorSet :
                IF c \in failed
                THEN metrics[c] = ErrorEntry("collector raised")
                ELSE "error" \notin DOMAIN metrics[c]
    /\ Reported =>
          /\ {"timestamp", "timestamp_unix", "metrics", "issues", "summary"}
                \subseteq DOMAIN report
          /\ report.metrics = metrics
    /\ (pc = "done" /\ exit_code = 1 /\ config_state \in {"ok", "missing"}) =>
          saves # <<>>

\* every collector raised, and generate_report returned its report
C1_Witness ==
    /\ pc = "save"
    /\ failed = CollectorSet
    /\ report.summary.total_issues = 0

\* C2: when every command of every collector exits 0 with an empty stdout,
\* the report's summary has total_packages = 0, total_updates = 0 and
\* total_issues = 0.
C2_EmptyOutputsGiveZeroSummary ==
    (Reported /\ quiet) =>
        /\ report.summary.total_packages = 0
        /\ report.summary.total_updates = 0
        /\ report.summary.total_issues = 0

\* C6: once a KeyboardInterrupt was delivered to the run, the run has ended
\* with status 130 (so that no later step runs).
C6_InterruptEndsWith130 ==
    interrupted => (pc = "done" /\ exit_code = 130)

\* C7: when config.json is missing, cannot be opened or is malformed, the
\* run has ended with a non-zero status, no collector was invoked and no
\* report file was written.
C7_BadConfigAborts ==
    config_state \in {"missing", "unreadable", "malformed"} =>
        /\ pc = "done"
        /\ exit_code \notin {0, Running}
        /\ order = <<>>
        /\ saves = <<>>
        /\ DOMAIN files = {}

\* C7, amended: a config.json that exists but cannot be opened, or that is
\* malformed, ends the run with status 1 before any collector is invoked and
\* before any report file is written; a missing config.json does not: the
\* run goes on to the collectors with the default configuration.
C7_UnreadableOrMalformedAborts ==
    /\ config_state \in {"unreadable", "malformed"} =>
          /\ pc = "done"
          /\ exit_code = 1
          /\ order = <<>>
          /\ report = NoReport
          /\ saves = <<>>
          /\ DOMAIN files = {}
    /\ config_state = "missing" =>
          /\ config = DefaultConfig
          /\ order = <<>> => (pc = "packages" /\ exit_code = Running)

\* load_config found a file it could not open, and the run is over
C7_Witness ==
    /\ config_state = "unreadable"
    /\ pc = "done"
    /\ exit_code = 1

-----------------------------------------------------------------------------
(* The analyzer on hosts with pending updates, advisories and orphans      *)

\* the most update lines, advisory lines and orphan lines a host prints
MaxUpdates == 2
MaxAdvisories == 2
MaxOrphans == 52

Quiet == {Exited(0, EmptyOut)}

\* the hosts of SpecHosts: the configuration is readable, nothing interrupts
\* and the report is saved; `dnf check-update` exits 0 or 100 with up to
\* MaxUpdates updates, `dnf updateinfo` lists up to MaxAdvisories advisories,
\* `dnf repoquery --unneeded` up to MaxOrphans packages; a collector may raise
HostsEnv ==
    [sessions         |-> {"s1"},
     config_states    |-> {"ok"},
     collector_raises |-> BOOLEAN,
     interrupts       |-> {FALSE},
     swallow_at       |-> {0},
     rpm_qa           |-> Quiet,
     userinstalled    |-> Quiet,
     rpm_sizes        |-> {Exited(0, QEmptyOut)},
     check_update     |-> {Exited(rc, out) : rc \in CheckUpdateOkCodes,
                                              out \in UpTo(MaxUpdates, UpdateLine)},
     updateinfo       |-> {Exited(0, out) : out \in UpTo(MaxAdvisories, AdvisoryLine)},
     unneeded         |-> {Exited(0, out) : out \in UpTo(MaxOrphans, PkgLine)},
     autoremove       |-> Quiet,
     cache_dirs       |-> {CacheDir(FALSE, FALSE, <<>>)},
     du               |-> Quiet,
     dnf_check        |-> Quiet,
     rpm_verify       |-> Quiet,
     duplicates       |-> Quiet,
     elapsed          |-> {1},
     save_faults      |-> {"none"},
     db_outcomes      |-> {"ok"}]

NextHosts == MainNext(HostsEnv)

SpecHosts == Init /\ [][NextHosts]_vars

\* the positions in the report's issue list of the issues of a type
IssuesOfType(type) ==
    {i \in 1..Len(report.issues) : report.issues[i].type = type}

\* a count the report's metrics hold, 0 when the collector's entry lacks it
MetricCount(collector, key) ==
    Get(Get(report.metrics, collector, EmptyDict), key, 0)

\* C3: in the report generate_report returns, there is an issue of type
\* 'updates' exactly when the metrics' total_updates is positive, and it is
\* the only one, of severity 'info' and carrying that count; there is an
\* issue of type 'security' exactly when the metrics' security_updates is
\* positive, and it is the only one, of severity 'warning' and carrying that
\* count; so both are present when both counts are positive.
C3_UpdateIssuesIffCountsPositive ==
    Reported =>
        /\ (IssuesOfType("updates") # {}) <=> (MetricCount("updates", "total_updates") > 0)
        /\ Cardinality(IssuesOfType("updates")) <= 1
        /\ \A i \in IssuesOfType("updates") :
              /\ report.issues[i].severity = "info"
              /\ report.issues[i].message[1] = MetricCount("updates", "total_updates")
        /\ (IssuesOfType("security") # {})
              <=> (MetricCount("updates", "security_updates") > 0)
        /\ Cardinality(IssuesOfType("security")) <= 1
        /\ \A i \in IssuesOfType("security") :
              /\ report.issues[i].severity = "warning"
              /\ report.issues[i].message[1] = MetricCount("updates", "security_updates")

\* two updates and two advisories are pending, and the report holds the
\* 'updates' issue followed by the 'security' issue
C3_Witness ==
    /\ Reported
    /\ MetricCount("updates", "total_updates") = MaxUpdates
    /\ MetricCount("updates", "security_updates") = MaxAdvisories
    /\ IssuesOfType("updates") = {1}
    /\ IssuesOfType("security") = {2}

\* C4: the report holds an issue of type 'orphans' exactly when the metrics'
\* orphaned_count is greater than 10 (11 gives it, 10 and less do not); it is
\* of severity 'info' and carries orphaned_count, which is the number of all
\* orphans found while the list orphaned_packages holds at most 50 of them.
C4_OrphanIssueIffCountAboveTen ==
    Reported =>
        /\ (IssuesOfType("orphans") # {})
              <=> (MetricCount("orphans", "orphaned_count") > 10)
        /\ (MetricCount("orphans", "orphaned_count") = 11) => IssuesOfType("orphans") # {}
        /\ (MetricCount("orphans", "orphaned_count") <= 10) => IssuesOfType("orphans") = {}
        /\ Cardinality(IssuesOfType("orphans")) <= 1
        /\ \A i \in IssuesOfType("orphans") :
              /\ report.issues[i].severity = "info"
              /\ report.issues[i].message[1] = MetricCount("orphans", "orphaned_count")
        /\ "orphans" \notin failed =>
              Len(report.metrics["orphans"].orphaned_packages)
                  = IF MetricCount("orphans", "orphaned_count") < OrphanedPackagesCap
                    THEN MetricCount("orphans", "orphaned_count")
                    ELSE OrphanedPackagesCap

\* 51 orphans were found: the list holds 50 and the issue says 51
C4_Witness ==
    /\ Reported
    /\ MetricCount("orphans", "orphaned_count") = OrphanedPackagesCap + 1
    /\ Len(report.metrics["orphans"].orphaned_packages) = OrphanedPackagesCap
    /\ \E i \in IssuesOfType("orphans") :
          report.issues[i].message[1] = OrphanedPackagesCap + 1

-----------------------------------------------------------------------------
(* The analyzer run again and again on one disk                            *)

\* the most runs that reach save_report
MaxRuns == 3

\* main is started again once the run before it has ended: the process
\* starts from scratch, the disk and the clock are what they are
Rerun ==
    /\ pc = "done"
    /\ Len(saves) < MaxRuns
    /\ pc' = "main"
    /\ session' = NoSession
    /\ config_state' = "unread"
    /\ config' = EmptyDict
    /\ timestamp' = 0
    /\ metrics' = EmptyDict
    /\ order' = <<>>
    /\ failed' = {}
    /\ report' = NoReport
    /\ db_calls' = <<>>
    /\ db_outcome' = "none"
    /\ printed' = FALSE
    /\ exit_code' = Running
    /\ interrupted' = FALSE
    /\ quiet' = TRUE
    /\ UNCHANGED <<diskVars, callVars, reporterVars>>

\* the hosts of SpecRuns: nothing fails before save_report; config.json is
\* there or missing, which gives two output directories; between two
\* readings of the clock up to MaxElapsed ticks pass; save_report may fail
RunsEnv ==
    [sessions         |-> {"s1"},
     config_states    |-> {"ok", "missing"},
     collector_raises |-> {FALSE},
     interrupts       |-> {FALSE},
     swallow_at       |-> {0},
     rpm_qa           |-> Quiet,
     userinstalled    |-> Quiet,
     rpm_sizes        |-> {Exited(0, QEmptyOut)},
     check_update     |-> Quiet,
     updateinfo       |-> Quiet,
     unneeded         |-> Quiet,
     autoremove       |-> Quiet,
     cache_dirs       |-> {CacheDir(FALSE, FALSE, <<>>)},
     du               |-> Quiet,
     dnf_check        |-> Quiet,
     rpm_verify       |-> Quiet,
     duplicates       |-> Quiet,
     elapsed          |-> 0..MaxElapsed,
     save_faults      |-> SaveFaults,
     db_outcomes      |-> {"ok"}]

NextRuns ==
    \/ MainNext(RunsEnv)
    \/ Rerun

SpecRuns == Init /\ [][NextRuns]_vars

\* the call of save_report a step makes, when it makes one
ThisSave == saves'[Len(saves')]

\* no earlier call into this call's directory was made in this call's second
FreshSecond ==
    \A k \in 1..Len(saves) :
        saves[k].dir = ThisSave.dir => saves[k].second # ThisSave.second

\* C8: a call of save_report made in a second in which no earlier call into
\* the same output directory was made leaves every file written before as it
\* is, and, unless it raises, creates a file that was not there, named after
\* the directory and that second, which holds the report.
C8_SaveIsAppendOnly ==
    [][(saves' # saves /\ FreshSecond) =>
          /\ \A p \in DOMAIN files : p \in DOMAIN files' /\ files'[p] = files[p]
          /\ ThisSave.fault = "none" =>
                /\ ThisSave.path = <<ThisSave.dir, ThisSave.second>>
                /\ ThisSave.path \notin DOMAIN files
                /\ DOMAIN files' = DOMAIN files \cup {ThisSave.path}
                /\ files'[ThisSave.path] = report']_vars

\* two reports were saved into one directory in different seconds, and both
\* files are on disk, each holding its own report
C8_Witness ==
    /\ Len(saves) >= 2
    /\ saves[1].dir = saves[2].dir
    /\ saves[1].second # saves[2].second
    /\ saves[1].fault = "none" /\ saves[2].fault = "none"
    /\ {saves[1].path, saves[2].path} \subseteq DOMAIN files
    /\ files[saves[1].path] # files[saves[2].path]

\* the earlier calls of save_report into this call's directory that were
\* made in this call's second
SameSecond ==
    {k \in 1..Len(saves) :
        saves[k].dir = ThisSave.dir /\ saves[k].second = ThisSave.second}

\* C20: a call of save_report that does not raise writes one file, named
\* after the output directory and the second of the wall clock at the call,
\* whatever the report's timestamp and content, and touches no other; when
\* an earlier call into the same directory was made in the same second, it
\* writes the path that call wrote: no file is added, and the one file of
\* that second holds the later report.
C20_SameSecondOverwrites ==
    [][(saves' # saves /\ ThisSave.fault = "none") =>
          LET path == <<config.output_dir, SecondOf(clock')>>
          IN  /\ files' = [p \in DOMAIN files \cup {path} |->
                              IF p = path THEN report' ELSE files[p]]
              /\ \A k \in SameSecond :
                    /\ saves[k].path = path
                    /\ saves[k].fault # "open" =>
                          /\ path \in DOMAIN files
                          /\ DOMAIN files' = DOMAIN files
                    /\ Cardinality({p \in DOMAIN files' :
                                       p[1] = ThisSave.dir /\ p[2] = ThisSave.second}) = 1
                    /\ files'[path] = report']_vars

\* two runs saved their reports into one directory within one second: one
\* file is on disk, and it holds the report of the second run, which was
\* generated a tick after the first
C20_Witness ==
    /\ Len(saves) = 2
    /\ saves[1].dir = saves[2].dir
    /\ saves[1].second = saves[2].second
    /\ saves[1].fault = "none" /\ saves[2].fault = "none"
    /\ DOMAIN files = {saves[2].path}
    /\ files[saves[2].path] = report
    /\ report.timestamp > 0

-----------------------------------------------------------------------------
(* The analyzer run with and without --session                             *)

\* the hosts of SpecSessions: main is run without --session, with an empty
\* identifier and with the identifier s1; a collector may raise, save_report
\* may fail, the database hook may fail to import, raise or succeed
SessionsEnv ==
    [sessions         |-> {NoSession, "", "s1"},
     config_states    |-> {"ok"},
     collector_raises |-> BOOLEAN,
     interrupts       |-> {FALSE},
     swallow_at       |-> {0},
     rpm_qa           |-> Quiet,
     userinstalled    |-> Quiet,
     rpm_sizes        |-> {Exited(0, QEmptyOut)},
     check_update     |-> Quiet,
     updateinfo       |-> Quiet,
     unneeded         |-> Quiet,
     autoremove       |-> Quiet,
     cache_dirs       |-> {CacheDir(FALSE, FALSE, <<>>)},
     du               |-> Quiet,
     dnf_check        |-> Quiet,
     rpm_verify       |-> Quiet,
     duplicates       |-> Quiet,
     elapsed          |-> {1},
     save_faults      |-> SaveFaults,
     db_outcomes      |-> DbOutcomes]

NextSessions == MainNext(SessionsEnv)

SpecSessions == Init /\ [][NextSessions]_vars

\* save_report has returned: the last call of it wrote its file
Saved == saves # <<>> /\ saves[Len(saves)].fault = "none"

\* the file the last call of save_report wrote
SavedFile == files[saves[Len(saves)].path]

\* C12: a run given --session s has saved a report with session_id = s and,
\* unless the hook could not be imported, has invoked insert_package_metrics
\* once, with (s, report); a run without the flag has saved a report with no
\* session_id key and has not invoked the hook.
C12_SessionFlagAttachesAndForwards ==
    (pc = "done" /\ exit_code = 0) =>
        /\ Saved
        /\ SavedFile = report
        /\ IF session # NoSession
           THEN /\ "session_id" \in DOMAIN report
                /\ report.session_id = session
                /\ db_outcome # "import_error" => db_calls = << <<session, report>> >>
           ELSE /\ "session_id" \notin DOMAIN report
                /\ db_calls = <<>>

\* C15: in session mode the database hook is attempted only after
\* save_report has written the report, session_id included, to its file;
\* when importing or calling the hook raises an Exception the run goes on:
\* the file stays as written and the run is at print_summary or has ended
\* with status 0 after printing the summary.
C15_HookFailureIsNotFatal ==
    /\ (pc = "database" \/ db_outcome # "none") =>
          /\ Truthy(session)
          /\ Saved
          /\ SavedFile = report
          /\ report.session_id = session
    /\ db_outcome \in {"import_error", "insert_error"} =>
          \/ pc = "summary" /\ exit_code = Running
          \/ pc = "done" /\ exit_code = 0 /\ printed

\* insert_package_metrics raised, and the run ended with status 0 after the
\* summary, the report still in its file
C15_Witness ==
    /\ db_outcome = "insert_error"
    /\ db_calls = << <<session, report>> >>
    /\ pc = "done" /\ exit_code = 0 /\ printed
    /\ SavedFile = report

-----------------------------------------------------------------------------
(* The analyzer on hosts with a cache around 100 MB and with dependency    *)
(* problems                                                                *)

\* a cache directory that holds one file of `size` bytes
OneFileCache(size) == CacheDir(TRUE, FALSE, <<CacheFile(size, FALSE)>>)

\* the hosts of SpecFlags: /var/cache/dnf is absent, cannot be walked, or
\* holds 100 MB less a byte, exactly 100 MB, a byte more, the most that is
\* measured as 100.0 MB, the least that is measured as 100.01 MB, or the
\* latter in a file that cannot be read; `dnf check`, `rpm -Va` and
\* `dnf repoquery --duplicates` raise, fail or succeed, with one line or
\* none; the cache and dependencies collectors may raise
FlagsEnv ==
    [sessions         |-> {NoSession, "s1"},
     config_states    |-> {"ok"},
     collector_raises |-> BOOLEAN,
     interrupts       |-> {FALSE},
     swallow_at       |-> {0},
     rpm_qa           |-> Quiet,
     userinstalled    |-> Quiet,
     rpm_sizes        |-> {Exited(0, QEmptyOut)},
     check_update     |-> Quiet,
     updateinfo       |-> Quiet,
     unneeded         |-> Quiet,
     autoremove       |-> Quiet,
     cache_dirs       |-> {CacheDir(FALSE, FALSE, <<>>),
                           CacheDir(TRUE, TRUE, <<>>),
                           OneFileCache(HundredMB - 1),
                           OneFileCache(HundredMB),
                           OneFileCache(HundredMB + 1),
                           OneFileCache(OverHundredMB - 1),
                           OneFileCache(OverHundredMB),
                           CacheDir(TRUE, FALSE, <<CacheFile(OverHundredMB, TRUE)>>)},
     du               |-> Quiet \cup {Exited(0, <<DuLine, Blank>>)},
     dnf_check        |-> CommandResults({0, 1}, UpTo(1, MissingLine)),
     rpm_verify       |-> CommandResults({0, 1}, UpTo(1, VerifyLine)),
     duplicates       |-> CommandResults({0, 1}, UpTo(1, PkgLine)),
     elapsed          |-> {1},
     save_faults      |-> {"none"},
     db_outcomes      |-> {"ok"}]

NextFlags == MainNext(FlagsEnv)

SpecFlags == Init /\ [][NextFlags]_vars

\* C13: the report holds an issue of type 'cache' exactly when the cache
\* size the cache collector measured, total_size_mb, is greater than 100 MB
\* (100 MB gives none), and it is one issue of severity 'info' carrying that
\* size; it holds an issue of type 'dependencies' exactly when the
\* dependencies collector found a broken dependency or a duplicate package,
\* and it is one issue of severity 'warning'.
C13_FlagIssuesIffFlagsSet ==
    Reported =>
        /\ (IssuesOfType("cache") # {})
              <=> (MetricCount("cache", "total_size_mb") > 100 * 100)
        /\ (MetricCount("cache", "total_size_mb") = 100 * 100)
              => IssuesOfType("cache") = {}
        /\ Cardinality(IssuesOfType("cache")) <= 1
        /\ \A i \in IssuesOfType("cache") :
              /\ report.issues[i].severity = "info"
              /\ report.issues[i].message[1] = MetricCount("cache", "total_size_mb")
        /\ (IssuesOfType("dependencies") # {})
              <=> \/ MetricCount("dependencies", "broken_dependencies") > 0
                  \/ MetricCount("dependencies", "duplicate_packages") > 0
        /\ Cardinality(IssuesOfType("dependencies")) <= 1
        /\ \A i \in IssuesOfType("dependencies") :
              report.issues[i].severity = "warning"

\* the cache was measured as 100.01 MB and one duplicate package was found
\* with no broken dependency: the report holds the 'cache' issue followed by
\* the 'dependencies' issue
C13_Witness ==
    /\ Reported
    /\ MetricCount("cache", "total_size_mb") = 100 * 100 + 1
    /\ MetricCount("dependencies", "broken_dependencies") = 0
    /\ MetricCount("dependencies", "duplicate_packages") = 1
    /\ IssuesOfType("cache") = {1}
    /\ IssuesOfType("dependencies") = {2}

\* what a collector may return on the hosts of SpecFlags
EntriesOf(name) ==
    LET E == FlagsEnv
    IN  CASE name = "packages" ->
                 {collect_package_metrics(t, u, z, 0) :
                     t \in E.rpm_qa, u \in E.userinstalled, z \in E.rpm_sizes}
          [] name = "updates" ->
                 {collect_update_metrics(c, a) :
                     c \in E.check_update, a \in E.updateinfo}
          [] name = "orphans" ->
                 {collect_orphan_metrics(n, a) :
                     n \in E.unneeded, a \in E.autoremove}
          [] name = "cache" ->
                 {collect_cache_metrics(d, 0, u) : d \in E.cache_dirs, u \in E.du}
          [] name = "dependencies" ->
                 {collect_dependency_metrics(c, r, d) :
                     c \in E.dnf_check, r \in E.rpm_verify, d \in E.duplicates}

\* a step of collect_all_metrics invokes the next collector of the fixed
\* order and stores its entry, leaving every entry stored before as it is
OneCollectorStep ==
    LET name == Collectors[Len(order')]
    IN  /\ Len(order) < Len(Collectors)
        /\ order' = Append(order, Collectors[Len(order) + 1])
        /\ DOMAIN metrics' = DOMAIN metrics \cup {name}
        /\ \A c \in DOMAIN metrics : metrics'[c] = metrics[c]
        /\ IF name \in failed'
           THEN metrics'[name] = ErrorEntry("collector raised")
           ELSE metrics'[name] \in EntriesOf(name)

\* C14: collect_all_metrics invokes the collectors one after the other in
\* the order packages, updates, orphans, cache, dependencies, each once;
\* whether or not a collector raises, the entries stored before it stay as
\* they are and every later collector is invoked and stores what it returns.
C14_EachCollectorOnceInOrder ==
    /\ [](Collected => (order = Collectors /\ DOMAIN metrics = CollectorSet))
    /\ [][IF order' # order THEN OneCollectorStep ELSE metrics' = metrics]_vars

\* the updates collector raised and no other did: the cache collector, which
\* ran after it, stored the 100.01 MB it measured, and the dependencies
\* collector the duplicate it found
C14_Witness ==
    /\ Collected
    /\ failed = {"updates"}
    /\ metrics["updates"] = ErrorEntry("collector raised")
    /\ metrics["cache"].total_size_mb = 100 * 100 + 1
    /\ metrics["dependencies"].duplicate_packages = 1

-----------------------------------------------------------------------------
(* The analyzer on hosts where every rule of generate_report can fire      *)

\* the hosts of SpecIssues: each collector finds nothing or what makes its
\* rules fire (an update, an advisory, eleven orphans, a cache measured as
\* 100.01 MB, a duplicate package), or raises
IssuesEnv ==
    [sessions         |-> {NoSession, "s1"},
     config_states    |-> {"ok"},
     collector_raises |-> BOOLEAN,
     interrupts       |-> {FALSE},
     swallow_at       |-> {0},
     rpm_qa           |-> {Exited(0, Lines(1, PkgLine))},
     userinstalled    |-> Quiet,
     rpm_sizes        |-> {Exited(0, <<SizeLine, QBlank>>)},
     check_update     |-> Quiet \cup {Exited(100, Lines(1, UpdateLine))},
     updateinfo       |-> Quiet \cup {Exited(0, Lines(1, AdvisoryLine))},
     unneeded         |-> Quiet \cup {Exited(0, Lines(OrphanIssueThreshold + 1, PkgLine))},
     autoremove       |-> Quiet,
     cache_dirs       |-> {CacheDir(FALSE, FALSE, <<>>), OneFileCache(OverHundredMB)},
     du               |-> Quiet,
     dnf_check        |-> Quiet,
     rpm_verify       |-> Quiet,
     duplicates       |-> Quiet \cup {Exited(0, Lines(1, PkgLine))},
     elapsed          |-> {1},
     save_faults      |-> {"none"},
     db_outcomes      |-> {"ok"}]

NextIssues == MainNext(IssuesEnv)

SpecIssues == Init /\ [][NextIssues]_vars

\* the types of issue in the order of generate_report's rules, and the
\* collector whose entry each rule reads
IssueTypes == <<"updates", "security", "orphans", "cache", "dependencies">>
CollectorOfType(type) == IF type = "security" THEN "updates" ELSE type

\* the place of a type in IssueTypes
PlaceOfType(type) == CHOOSE k \in 1..Len(IssueTypes) : IssueTypes[k] = type

\* C19: in every report, summary.total_issues is the length of the issue
\* list; the list holds at most five issues, at most one of each type, in
\* the order updates, security, orphans, cache, dependencies, each of
\* severity info or warning; a collector whose entry is the error
\* placeholder gives no issue of its types, and the summary fields derived
\* from its entry are 0.
C19_IssueListShape ==
    Reported =>
        /\ report.summary.total_issues = Len(report.issues)
        /\ Len(report.issues) <= 5
        /\ \A i \in 1..Len(report.issues) :
              /\ \E k \in 1..Len(IssueTypes) : report.issues[i].type = IssueTypes[k]
              /\ report.issues[i].severity \in {"info", "warning"}
        /\ \A i, j \in 1..Len(report.issues) :
              i < j => PlaceOfType(report.issues[i].type)
                           < PlaceOfType(report.issues[j].type)
        /\ \A k \in 1..Len(IssueTypes) :
              /\ Cardinality(IssuesOfType(IssueTypes[k])) <= 1
              /\ CollectorOfType(IssueTypes[k]) \in failed
                    => IssuesOfType(IssueTypes[k]) = {}
        /\ "packages" \in failed => report.summary.total_packages = 0
        /\ "updates" \in failed => report.summary.total_updates = 0
        /\ "cache" \in failed => report.summary.cache_size_mb = 0

\* every rule fired: the report holds the five issues
C19_Witness ==
    /\ Reported
    /\ Len(report.issues) = 5
    /\ report.summary.total_issues = 5
    /\ report.issues[3].type = "orphans"
    /\ report.issues[4].type = "cache"

-----------------------------------------------------------------------------
(* reporter/ai_package_reporter.py                                         *)
(*                                                                         *)
(* The text the API answers with is modelled as the sequence of its        *)
(* tokens, which white space separates: the fence that opens a json block, *)
(* the plain fence, the braces, "kv" for the members of an object (no      *)
(* brace in them), "kvf" for members one of whose string values holds one  *)
(* fence of three backquotes, "7" for a number and "txt" for prose.        *)

\* the fence of three backquotes followed by json, and the fence alone
FenceJson == "fence-json"
Fence == "fence"
Tokens == {FenceJson, Fence, "{", "}", "kv", "kvf", "7", "txt"}

\* the tokens in which the text of the plain fence is found
Fences == {FenceJson, Fence, "kvf"}

\* what is left of a "kvf" token that a slice cuts at its fence
Fragment == "frag"

\* resultado[json_start:json_end].strip(), json_start being the end of the
\* fence found in the token at `open` and json_end the start of the fence
\* found in the token at `close`
Slice(text, open, close) ==
    (IF text[open] = "kvf" THEN <<Fragment>> ELSE <<>>)
        \o SubSeq(text, open + 1, close - 1)
        \o (IF text[close] = "kvf" THEN <<Fragment>> ELSE <<>>)

\* text.find(t): the first position at or after `from` of a token of the
\* set, 0 when there is none; text.rfind(t): the last one
FindFrom(text, set, from) ==
    LET hits == {i \in from..Len(text) : text[i] \in set}
    IN  IF hits = {} THEN 0 ELSE CHOOSE i \in hits : \A j \in hits : i <= j
RFind(text, set) ==
    LET hits == {i \in 1..Len(text) : text[i] \in set}
    IN  IF hits = {} THEN 0 ELSE CHOOSE i \in hits : \A j \in hits : i >= j

\* chamar_gemini, lines 146-158: the text between the fences, if any
StripFences(resultado) ==
    IF FindFrom(resultado, {FenceJson}, 1) # 0
    THEN LET open  == FindFrom(resultado, {FenceJson}, 1)
             close == FindFrom(resultado, Fences, open + 1)
         IN  IF close # 0 THEN Slice(resultado, open, close)
             ELSE resultado
    ELSE IF FindFrom(resultado, Fences, 1) # 0
    THEN LET open  == FindFrom(resultado, Fences, 1)
             close == RFind(resultado, Fences)
         IN  IF close > open THEN Slice(resultado, open, close)
             ELSE resultado
    ELSE resultado

\* chamar_gemini, lines 160-164: from the first '{' to the last '}'
ExtractBraces(json_text) ==
    LET first_brace == FindFrom(json_text, {"{"}, 1)
        last_brace  == RFind(json_text, {"}"})
    IN  IF first_brace # 0 /\ last_brace # 0
        THEN SubSeq(json_text, first_brace, last_brace)
        ELSE json_text

\* the values json.loads returns: a dict with its members, a number
JsonDict(members) == [kind |-> "dict", members |-> members]
JsonNumber == [kind |-> "number", members |-> <<>>]

\* json.loads: ok is FALSE when it raises JSONDecodeError
ParseJson(json_text) ==
    CASE json_text = <<"{", "}">>        -> [ok |-> TRUE, value |-> JsonDict(<<>>)]
      [] json_text = <<"{", "kv", "}">>  -> [ok |-> TRUE, value |-> JsonDict(<<"kv">>)]
      [] json_text = <<"{", "kvf", "}">> -> [ok |-> TRUE, value |-> JsonDict(<<"kvf">>)]
      [] json_text = <<"7">>             -> [ok |-> TRUE, value |-> JsonNumber]
      [] OTHER                           -> [ok |-> FALSE, value |-> None]

\* what generate_content does: it raises, or answers with a text
ApiRaised == [raised |-> TRUE, text |-> <<>>]
ApiAnswer(text) == [raised |-> FALSE, text |-> text]

\* chamar_gemini answering a text it cannot parse with a dict made of it
chamar_gemini_FallbackDict(api) ==
    IF api.raised THEN None
    ELSE LET parsed == ParseJson(ExtractBraces(StripFences(api.text)))
         IN  IF parsed.ok THEN parsed.value ELSE JsonDict(<<"txt">>)

\* chamar_gemini: None when the API raised or json.loads did
chamar_gemini(api) ==
    IF api.raised THEN None
    ELSE LET parsed == ParseJson(ExtractBraces(StripFences(api.text)))
         IN  IF parsed.ok THEN parsed.value ELSE None

\* `not value`
Falsy(value) ==
    IF value = None THEN TRUE
    ELSE value.kind = "dict" /\ value.members = <<>>

\* value.get exists
IsDict(value) == value # None /\ value.kind = "dict"

\* sys.exit(status) in the reporter
RExit(status) ==
    /\ rpc' = "done"
    /\ rexit' = status

\* lines 19-23: without GEMINI_API_KEY the module exits before main
CheckApiKey(R) ==
    /\ rpc = "main"
    /\ \E key \in R.api_keys :
          IF key THEN rpc' = "find" /\ UNCHANGED rexit ELSE RExit(1)
    /\ UNCHANGED <<response, api_calls, analise_json, html_content, html_files>>
    /\ UNCHANGED <<analyzerVars, diskVars, callVars>>

\* main, lines 288-294: obter_ultimo_json finds the latest report or none
ObterUltimoJson(R) ==
    /\ rpc = "find"
    /\ \E found \in R.reports_found, kbd \in R.interrupts :
          IF kbd THEN RExit(130)
          ELSE IF found THEN rpc' = "read" /\ UNCHANGED rexit
          ELSE RExit(1)
    /\ UNCHANGED <<response, api_calls, analise_json, html_content, html_files>>
    /\ UNCHANGED <<analyzerVars, diskVars, callVars>>

\* main, lines 298-303: ler_json returns the data, or None when it cannot
\* read the file, and main goes on with data that is not empty
LerJson(R) ==
    /\ rpc = "read"
    /\ \E readable \in R.reports_readable, kbd \in R.interrupts :
          IF kbd THEN RExit(130)
          ELSE IF readable THEN rpc' = "gemini" /\ UNCHANGED rexit
          ELSE RExit(1)
    /\ UNCHANGED <<response, api_calls, analise_json, html_content, html_files>>
    /\ UNCHANGED <<analyzerVars, diskVars, callVars>>

\* main, lines 312-319: the prompt is built and chamar_gemini called, which
\* calls generate_content once; main exits with 1 on a result that is falsy
ChamarGemini(R) ==
    /\ rpc = "gemini"
    /\ \E api \in R.api, kbd \in R.interrupts :
          IF kbd
          THEN /\ RExit(130)
               /\ UNCHANGED <<response, api_calls, analise_json>>
          ELSE /\ api_calls' = api_calls + 1
               /\ response' = api.text
               /\ analise_json' = chamar_gemini(api)
               /\ IF Falsy(chamar_gemini(api))
                  THEN RExit(1)
                  ELSE rpc' = "template" /\ UNCHANGED rexit
    /\ UNCHANGED <<html_content, html_files>>
    /\ UNCHANGED <<analyzerVars, diskVars, callVars>>

\* main, lines 323-328: preencher_template returns None when it cannot read
\* the template, and raises AttributeError on an analysis that has no get,
\* which main's except Exception turns into status 1
PreencherTemplate(R) ==
    /\ rpc = "template"
    /\ \E readable \in R.template_readable, kbd \in R.interrupts :
          IF kbd THEN RExit(130) /\ UNCHANGED html_content
          ELSE IF readable /\ IsDict(analise_json)
          THEN /\ html_content' = [analise |-> analise_json]
               /\ rpc' = "save"
               /\ UNCHANGED rexit
          ELSE RExit(1) /\ UNCHANGED html_content
    /\ UNCHANGED <<response, api_calls, analise_json, html_files>>
    /\ UNCHANGED <<analyzerVars, diskVars, callVars>>

\* main, lines 331-335: salvar_html writes the file, or returns None
SalvarHtml(R) ==
    /\ rpc = "save"
    /\ \E written \in R.html_writable, kbd \in R.interrupts :
          IF kbd THEN RExit(130) /\ UNCHANGED html_files
          ELSE IF written
          THEN /\ html_files' = html_files \cup {html_content}
               /\ rpc' = "prompt"
               /\ UNCHANGED rexit
          ELSE RExit(1) /\ UNCHANGED html_files
    /\ UNCHANGED <<response, api_calls, analise_json, html_content>>
    /\ UNCHANGED <<analyzerVars, diskVars, callVars>>

Answers == {"yes", "no", "other", "eof"}

\* main, lines 344-356: the question is asked until it is answered; main
\* then returns.  An end of input raises EOFError: status 1.
AskToOpen(R) ==
    /\ rpc = "prompt"
    /\ \E answer \in R.answers, kbd \in R.interrupts :
          IF kbd THEN RExit(130)
          ELSE CASE answer \in {"yes", "no"} -> RExit(0)
                 [] answer = "eof"           -> RExit(1)
                 [] OTHER                    -> UNCHANGED <<rpc, rexit>>
    /\ UNCHANGED <<response, api_calls, analise_json, html_content, html_files>>
    /\ UNCHANGED <<analyzerVars, diskVars, callVars>>

ReporterNext(R) ==
    \/ CheckApiKey(R)
    \/ ObterUltimoJson(R)
    \/ LerJson(R)
    \/ ChamarGemini(R)
    \/ PreencherTemplate(R)
    \/ SalvarHtml(R)
    \/ AskToOpen(R)

\* the most tokens of an answer of the API
MaxTokens == 4

Responses == UNION {[1..n -> Tokens] : n \in 0..MaxTokens}

\* what the reporter runs on: everything may fail, the API raises or
\* answers with any text of up to MaxTokens tokens
ReporterEnv ==
    [api_keys          |-> BOOLEAN,
     reports_found     |-> BOOLEAN,
     reports_readable  |-> BOOLEAN,
     interrupts        |-> BOOLEAN,
     api               |-> {ApiRaised} \cup {ApiAnswer(t) : t \in Responses},
     template_readable |-> BOOLEAN,
     html_writable     |-> BOOLEAN,
     answers           |-> Answers]

NextReporter == ReporterNext(ReporterEnv)

SpecReporter == Init /\ [][NextReporter]_vars

\* C10: the API is called at most once in a run; once chamar_gemini has
\* returned on an answer that json.loads rejects, the run has ended with
\* status 1, no HTML was filled and none written.
C10_UnparsableAnswerAborts ==
    /\ api_calls <= 1
    /\ (analise_json # Pending /\ ~ParseJson(ExtractBraces(StripFences(response))).ok) =>
          /\ rpc = "done"
          /\ rexit = 1
          /\ html_content = None
          /\ html_files = {}

\* the API answered braces around prose, and the run ended with status 1
C10_Witness ==
    /\ response = <<"{", "txt", "}">>
    /\ api_calls = 1
    /\ analise_json = None
    /\ rpc = "done"
    /\ rexit = 1

-----------------------------------------------------------------------------
(* One call of a helper of the collectors                                  *)

\* the most lines a command prints, and the greatest whole part of a Size
MaxLines == 2
MaxWhole == 12

\* the greatest integer TLC computes with
MaxInt == (1024 * 1024 * 1024 - 1) * 2 + 1

\* `dnf autoremove --assumeno` listing n packages to remove
Transcript(n) == <<RemovingLine>> \o [i \in 1..n |-> RemovedLine] \o <<Blank>>

\* the helpers that read their one command's output only when it exited 0
StrictHelpers ==
    {"get_packages_by_size", "get_security_updates", "get_orphaned_packages",
     "get_duplicate_packages", "get_cache_info_dnf"}

Helpers ==
    StrictHelpers \cup {"get_updates_available", "get_autoremovable_packages",
                        "check_broken_dependencies", "get_package_count"}

HelperCall(fn, results) == [fn |-> fn, results |-> results]

HelperCalls ==
    {HelperCall("get_packages_by_size", <<r>>) :
        r \in CommandResults({0, 1}, {QEmptyOut, <<SizeLine, QBlank>>})}
    \cup {HelperCall("get_security_updates", <<r>>) :
        r \in CommandResults({0, 1}, UpTo(MaxLines, AdvisoryLine))}
    \cup {HelperCall("get_orphaned_packages", <<r>>) :
        r \in CommandResults({0, 1}, UpTo(MaxLines, PkgLine))}
    \cup {HelperCall("get_duplicate_packages", <<r>>) :
        r \in CommandResults({0, 1}, UpTo(MaxLines, PkgLine))}
    \cup {HelperCall("get_cache_info_dnf", <<r>>) :
        r \in CommandResults({0, 1}, UpTo(1, DuLine))}
    \cup {HelperCall("get_updates_available", <<r>>) :
        r \in CommandResults({0, 1, 100}, UpTo(MaxLines, UpdateLine))}
    \cup {HelperCall("get_autoremovable_packages", <<r>>) :
        r \in CommandResults({0, 1}, {EmptyOut} \cup {Transcript(n) : n \in 1..MaxLines})}
    \cup {HelperCall("check_broken_dependencies", <<r1, r2>>) :
        r1 \in CommandResults({0, 1}, UpTo(MaxLines, MissingLine)),
        r2 \in CommandResults({0, 1}, UpTo(MaxLines, VerifyLine))}
    \cup {HelperCall("get_package_count", <<r1, r2>>) :
        r1 \in CommandResults({0, 1}, UpTo(MaxLines, PkgLine)),
        r2 \in CommandResults({0, 1}, UpTo(MaxLines, PkgLine))}

\* the decimal digits of n
RECURSIVE Render(_)
Render(n) ==
    IF n < 10 THEN <<Digits[n + 1]>>
    ELSE Render(n \div 10) \o <<Digits[(n % 10) + 1]>>

UnitLetters == {"k", "K", "m", "M", "g", "G"}
UnitExponent(u) ==
    CASE LowerChar(u) = "k" -> 1
      [] LowerChar(u) = "m" -> 2
      [] LowerChar(u) = "g" -> 3

\* 1024 ** n
Pow1024(n) == Pow2(10 * n)

\* A Size value text: the number tenths / 10 written with or without its
\* decimal, a space or none, and the unit letter.  The call keeps tenths and
\* the unit's exponent beside the text.
SizeCall(tenths, decimal, space, u) ==
    [fn     |-> "size_bytes",
     value  |-> Render(tenths \div 10)
                    \o (IF decimal THEN <<".", Digits[(tenths % 10) + 1]>> ELSE <<>>)
                    \o (IF space THEN <<" ">> ELSE <<>>)
                    \o <<u>>,
     tenths |-> tenths,
     n      |-> UnitExponent(u)]

\* tenths / 10 * 1024 ** n can be computed
Fits(tenths, n) == tenths <= MaxInt \div (Pow1024(n) \div 10 + 1)

\* the Size values up to MaxWhole.9 of each unit, as far as they fit
SizeCalls ==
    LET Inputs == {x \in (0..(10 * MaxWhole + 9)) \X BOOLEAN \X BOOLEAN \X UnitLetters :
                      /\ x[2] \/ x[1] % 10 = 0
                      /\ Fits(x[1], UnitExponent(x[4]))}
    IN  {SizeCall(x[1], x[2], x[3], x[4]) : x \in Inputs}

\* the JSON objects the model answers with: empty, one member, one member
\* whose string value holds a fence
Objects == {<<"{", "}">>, <<"{", "kv", "}">>, <<"{", "kvf", "}">>}

\* the prose around a fenced object: none or some
Prose == {<<>>, <<"txt">>}

\* chamar_gemini on an answer that wraps `object` in a fence
FenceCall(object, fence, before, after) ==
    [fn |-> "chamar_gemini", object |-> object,
     text |-> before \o <<fence>> \o object \o <<Fence>> \o after]

FenceCalls ==
    {FenceCall(o, f, b, a) :
        o \in Objects, f \in {FenceJson, Fence}, b \in Prose, a \in Prose}

\* the most packages `rpm -qa --queryformat` lists
MaxPackages == 52

\* the size of the i-th package listed: not in order, with equal sizes
SizeOfLine(i) == ((i * 37) % 53) * (400 * 1000)

\* the queryformat output for n packages; with `bad`, the second line has a
\* size that is not a number
PackageList(n, bad) ==
    [i \in 1..n |-> IF bad /\ i = 2 THEN QBadSize(ToString(i))
                    ELSE QLine(ToString(i), SizeOfLine(i), "1")] \o <<QBlank>>

PackageLists == {PackageList(n, bad) : n \in 0..MaxPackages, bad \in BOOLEAN}

\* what `rpm -qa --queryformat` may do on hosts with up to MaxPackages packages
PackageResults ==
    {Raised} \cup {Exited(rc, out) : rc \in {0, 1}, out \in PackageLists}

\* get_packages_by_size and collect_package_metrics on those hosts; `rpm -qa`
\* and `dnf repoquery --userinstalled` list one package
PackageCalls ==
    {HelperCall("get_packages_by_size", <<r>>) : r \in PackageResults}
    \cup {HelperCall("collect_package_metrics",
                     <<Exited(0, Lines(1, PkgLine)), Exited(0, Lines(1, PkgLine)), r>>) :
             r \in PackageResults}

Calls == HelperCalls \cup SizeCalls \cup FenceCalls \cup PackageCalls

\* what the called function returns
Apply(c) ==
    CASE c.fn = "size_bytes" -> size_bytes(c.value)
      [] c.fn = "chamar_gemini" -> chamar_gemini(ApiAnswer(c.text))
      [] c.fn = "get_packages_by_size" -> get_packages_by_size(c.results[1], 0)
      [] c.fn = "collect_package_metrics" ->
             collect_package_metrics(c.results[1], c.results[2], c.results[3], 0)
      [] c.fn = "get_security_updates" -> get_security_updates(c.results[1])
      [] c.fn = "get_orphaned_packages" -> get_orphaned_packages(c.results[1])
      [] c.fn = "get_duplicate_packages" -> get_duplicate_packages(c.results[1])
      [] c.fn = "get_cache_info_dnf" -> get_cache_info_dnf(c.results[1])
      [] c.fn = "get_updates_available" -> get_updates_available(c.results[1])
      [] c.fn = "get_autoremovable_packages" ->
             get_autoremovable_packages(c.results[1])
      [] c.fn = "check_broken_dependencies" ->
             check_broken_dependencies(c.results[1], c.results[2])
      [] c.fn = "get_package_count" -> get_package_count(c.results[1], c.results[2])

InitCall ==
    /\ MainInit /\ DiskInit /\ ReporterInit
    /\ call \in Calls
    /\ ret = Pending

\* the called function runs and returns
Return ==
    /\ call # NoCall
    /\ ret = Pending
    /\ ret' = [value |-> Apply(call)]
    /\ UNCHANGED <<call, analyzerVars, diskVars, reporterVars>>

NextCall == Return

SpecCall == InitCall /\ [][NextCall]_vars

\* the command raised or exited with a non-zero status
Failed(result) == result.raised \/ result.returncode # 0

\* the helper's result when it has read nothing
DefaultResult(fn) ==
    CASE fn = "get_cache_info_dnf" -> EmptyDict
      [] fn = "get_package_count" -> [total |-> 0, user_installed |-> 0, dependencies |-> 0]
      [] OTHER -> <<>>

Returned(fns) == call.fn \in fns /\ ret # Pending

\* C5: a helper whose every command raised or exited with a non-zero status
\* has returned its empty/default result.
C5_AnyFailureGivesDefault ==
    (/\ Returned(Helpers)
     /\ \A i \in 1..Len(call.results) : Failed(call.results[i]))
        => ret.value = DefaultResult(call.fn)

\* the lines of a command's output that are not blank
Printed(result) == Len(NonBlankLines(result.stdout))

\* C5, amended: a command that raises makes its helper return what it had
\* before that command, which is the empty/default result when it is the
\* helper's first.  A non-zero exit status gives the empty/default result in
\* get_packages_by_size, get_security_updates, get_orphaned_packages,
\* get_duplicate_packages and get_cache_info_dnf, and leaves its count at 0
\* in get_package_count; get_updates_available takes 100 as success and
\* parses the output; get_autoremovable_packages parses the output whatever
\* the status; check_broken_dependencies parses `dnf check` only when it
\* exited non-zero and `rpm -Va` whatever it exited with.
C5_FailurePolicyPerHelper ==
    /\ Returned(StrictHelpers) =>
          (Failed(call.results[1]) => ret.value = DefaultResult(call.fn))
    /\ Returned({"get_updates_available"}) =>
          LET r == call.results[1]
          IN  IF r.raised \/ r.returncode \notin {0, 100}
              THEN ret.value = <<>>
              ELSE Len(ret.value) = Printed(r)
    /\ Returned({"get_autoremovable_packages"}) =>
          LET r == call.results[1]
          IN  IF r.raised THEN ret.value = <<>>
              ELSE Len(ret.value) = (IF Printed(r) = 0 THEN 0 ELSE Printed(r) - 1)
    /\ Returned({"check_broken_dependencies"}) =>
          LET r1 == call.results[1]
              r2 == call.results[2]
          IN  Len(ret.value) =
                  IF r1.raised THEN 0
                  ELSE (IF r1.returncode # 0 THEN Printed(r1) ELSE 0)
                           + (IF r2.raised THEN 0 ELSE Printed(r2))
    /\ Returned({"get_package_count"}) =>
          LET r1 == call.results[1]
              r2 == call.results[2]
          IN  /\ Failed(r1) => ret.value.total = 0
              /\ (r1.raised \/ Failed(r2)) => ret.value.user_installed = 0
              /\ (r1.raised \/ r2.raised) => ret.value.dependencies = 0

\* `dnf autoremove --assumeno` exited with 1 having listed two packages,
\* and get_autoremovable_packages returned both
C5_Witness ==
    /\ Returned({"get_autoremovable_packages"})
    /\ call.results[1] = Exited(1, Transcript(MaxLines))
    /\ Len(ret.value) = MaxLines

\* C9: for a Size value that is the number v = tenths / 10 followed by a
\* unit letter k, M or G in either case, size_bytes differs from
\* v * 1024 ** n by less than one, n being 1, 2 or 3 for k, M or G.
\* With q and r the quotient and remainder of 1024 ** n by 10,
\* 10 * size_bytes - tenths * 1024 ** n = 10 * (size_bytes - tenths * q) - tenths * r.
C9_SizeWithinOneByte ==
    Returned({"size_bytes"}) =>
        LET q == Pow1024(call.n) \div 10
            r == Pow1024(call.n) % 10
            d == 10 * (ret.value - call.tenths * q) - call.tenths * r
        IN  -10 < d /\ d < 10

\* 1.9 G was converted: 2040109465 bytes
C9_Witness ==
    /\ Returned({"size_bytes"})
    /\ call.value = <<"1", ".", "9", " ", "G">>
    /\ ret.value = 2040109465

\* C11: for an answer that is a JSON object wrapped in a json fence or a
\* plain fence, with or without prose around it, chamar_gemini returns what
\* it returns for the object alone, whatever the object's string values hold.
C11_FencedAnswerParsesLikeBare ==
    Returned({"chamar_gemini"}) =>
        ret.value = chamar_gemini(ApiAnswer(call.object))

\* the lines of a queryformat output that get_packages_by_size can parse
Listed(result) ==
    LET lines == QStripSplit(result.stdout)
    IN  {i \in 1..Len(lines) : lines[i].parts >= 3 /\ lines[i].numeric}

\* the entries of a list are in descending order of size_bytes
Descending(packages) ==
    \A i, j \in 1..Len(packages) :
        i < j => packages[i].size_bytes >= packages[j].size_bytes

\* the lesser of two numbers
Min(a, b) == IF a < b THEN a ELSE b

\* C16: when `rpm -qa --queryformat` exits 0 having listed N packages,
\* get_packages_by_size returns the N entries parsed from them, each once, in
\* descending order of size_bytes; largest_packages then holds min(N, 20)
\* entries in descending order, each the entry parsed from its line, and no
\* package left out of it is larger than one in it.
C16_LargestAreTheTwentyLargest ==
    LET r     == call.results[Len(call.results)]
        lines == QStripSplit(r.stdout)
        N     == Cardinality(Listed(r))
    IN  /\ (Returned({"get_packages_by_size"}) /\ ~Failed(r)) =>
              /\ Len(ret.value) = N
              /\ Descending(ret.value)
              /\ \A i \in Listed(r) :
                    Cardinality({k \in 1..N : ret.value[k] = PackageEntry(lines[i])}) = 1
        /\ (Returned({"collect_package_metrics"}) /\ ~Failed(r)) =>
              LET largest == ret.value.largest_packages
                  inside  == {i \in Listed(r) :
                                 \E k \in 1..Len(largest) :
                                     largest[k] = PackageEntry(lines[i])}
              IN  /\ Len(largest) = Min(N, LargestPackagesCap)
                  /\ Descending(largest)
                  /\ Cardinality(inside) = Len(largest)
                  /\ \A i \in Listed(r) \ inside, k \in 1..Len(largest) :
                        lines[i].size <= largest[k].size_bytes

\* of MaxPackages packages listed, with sizes not in order,
\* largest_packages holds 20, the first of them the largest of all
C16_Witness ==
    /\ Returned({"collect_package_metrics"})
    /\ ~Failed(call.results[3])
    /\ Cardinality(Listed(call.results[3])) = MaxPackages
    /\ Len(ret.value.largest_packages) = LargestPackagesCap
    /\ ret.value.largest_packages[1].size_bytes = 52 * (400 * 1000)

\* C17: when `rpm -qa --queryformat` exits 0 having listed N packages,
\* all_packages_sample holds min(N, 100) entries and summary.total_size_gb
\* is the total size of all N packages, in gigabytes rounded to two decimals.
C17_SampleOfHundredAndTotalOfAll ==
    LET r     == call.results[Len(call.results)]
        lines == QStripSplit(r.stdout)
        listed == [i \in 1..Len(lines) |->
                      IF i \in Listed(r) THEN lines[i].size ELSE 0]
    IN  (Returned({"collect_package_metrics"}) /\ ~Failed(r)) =>
            /\ Len(ret.value.all_packages_sample)
                  = Min(Cardinality(Listed(r)), AllPackagesSampleCap)
            /\ ret.value.summary.total_size_gb = RoundGB(SumSeq(listed))

\* C18: whatever its two commands do, the result of get_package_count has
\* dependencies = total - user_installed.
C18_DependenciesIsTotalLessUser ==
    Returned({"get_package_count"}) =>
        ret.value.dependencies = ret.value.total - ret.value.user_installed

====
